---- MODULE Spec2Model ----
(***************************************************************************)
(* The two WebSocket MCP servers of the repository:                        *)
(*   src/mcp/mcp_server.py      (Yandex Tracker + host metrics, "tracker") *)
(*   src/mcp/git_mcp_server.py  (git inspection, "git")                    *)
(* Each accepted connection runs handle_websocket: a read loop that        *)
(* receives one text, decodes it, dispatches on the JSON-RPC method and    *)
(* sends at most one envelope back.                                        *)
(***************************************************************************)
EXTENDS Integers, Sequences, FiniteSets, TLC

\* Total number of texts the peers send over all connections.
MaxMsgs == 2

(***************************************************************************)
(* Python values, as far as the servers look at them.                      *)
(***************************************************************************)
None == [py |-> "None"]

PyStr(s) == [py |-> "str", v |-> s]

PyInt(n) == [py |-> "int", v |-> n]

PyList == [py |-> "list"]

PyDict(d) == [py |-> "dict", d |-> d]

EmptyDict == PyDict(<<>>)

IsDict(v) == v.py = "dict"

IsStr(v) == v.py = "str"

\* dict.get(key, default)
Get(v, key, default) == IF key \in DOMAIN v.d THEN v.d[key] ELSE default

\* Python truthiness: `not v`
Falsy(v) ==
    \/ v.py = "None"
    \/ v.py = "list"
    \/ v = PyStr("")
    \/ v = PyInt(0)
    \/ (v.py = "dict" /\ DOMAIN v.d = {})

(***************************************************************************)
(* Wire texts.  A text either is JSON (doc is the value it spells) or is   *)
(* not JSON at all.                                                        *)
(***************************************************************************)
Garbage == [form |-> "garbage"]

Json(doc) == [form |-> "json", doc |-> doc]

\* json.loads(data): the value, or json.JSONDecodeError
json_loads(data) ==
    IF data.form = "json"
    THEN [raised |-> FALSE, value |-> data.doc]
    ELSE [raised |-> TRUE, value |-> None]

(***************************************************************************)
(* JSON-RPC error codes used by the servers.                               *)
(***************************************************************************)
PARSE_ERROR == -32700

METHOD_NOT_FOUND == -32601

TOOL_NOT_FOUND == -32601

INTERNAL_ERROR == -32603

(***************************************************************************)
(* Response envelopes (the dict handed to json.dumps / send_text).         *)
(***************************************************************************)
ResultResponse(request_id, result) ==
    [jsonrpc |-> "2.0", id |-> request_id, result |-> result]

ErrorResponse(request_id, code, message) ==
    [jsonrpc |-> "2.0", id |-> request_id,
     error |-> [code |-> code, message |-> message]]

IsError(env) == "error" \in DOMAIN env

IsResult(env) == "result" \in DOMAIN env

\* f"{prefix}{arg}": a text with one interpolated Python value or string
Fmt(prefix, arg) == [prefix |-> prefix, arg |-> arg]

\* a literal text
Plain(text) == Fmt(text, PyStr(""))

\* {"content": [{"type": "text", "text": text}]}
Content(text) == [kind |-> "content", content |-> <<[type |-> "text", text |-> text]>>]

(***************************************************************************)
(* Tool descriptors.                                                       *)
(***************************************************************************)
Servers == {"tracker", "git"}

Schema(properties, required) ==
    [type |-> "object", properties |-> properties, required |-> required]

Tool(name, description, inputSchema) ==
    [name |-> name, description |-> description, inputSchema |-> inputSchema]

\* The descriptors registered with mcp_server.list_tools() at startup.
list_tools(s) ==
    IF s = "tracker"
    THEN << Tool("get-tracker-tasks", "Get the task list from Yandex Tracker",
                 Schema({}, <<>>)),
            Tool("get-host-metrics", "Get host metrics",
                 Schema({}, <<>>)) >>
    ELSE << Tool("get-current-branch", "Get the current git branch",
                 Schema({}, <<>>)),
            Tool("get-git-status", "Get the git repository status",
                 Schema({}, <<>>)),
            Tool("get-recent-commits", "Get recent commits from git history",
                 Schema({<<"count", "integer">>}, <<>>)),
            Tool("get-changed-files", "Get the list of all changed files",
                 Schema({}, <<>>)),
            Tool("get-file-content", "Get the content of a repository file",
                 Schema({<<"file_path", "string">>}, <<"file_path">>)),
            Tool("get-git-diff", "Get git diff",
                 Schema({<<"file_path", "string">>}, <<>>)) >>

\* The "tools" list handle_websocket puts in its tools/list result.
tools_list_result(s) ==
    IF s = "tracker"
    THEN << Tool("get-tracker-tasks",
                 "Get the task list from Yandex Tracker with optional priority filter",
                 Schema({<<"priority", "string">>}, <<>>)),
            Tool("create-tracker-task", "Create a new task in Yandex Tracker",
                 Schema({<<"summary", "string">>, <<"description", "string">>,
                         <<"priority", "string">>}, <<"summary">>)),
            Tool("get-host-metrics", "Get host metrics",
                 Schema({}, <<>>)) >>
    ELSE [i \in 1..Len(list_tools(s)) |->
             Tool(list_tools(s)[i].name, list_tools(s)[i].description,
                  list_tools(s)[i].inputSchema)]

(***************************************************************************)
(* Tool handlers.  A handler either returns a text or raises; what the     *)
(* text says (the tracker's answer, git's output) is the collaborators'    *)
(* business and is kept abstract.  calls lists the functions entered.      *)
(***************************************************************************)
Call(fn) == [fn |-> fn, fault |-> ""]

Fault(fn, msg) == [fn |-> fn, fault |-> msg]

\* fn was entered and returned text
Returns(fn, text) ==
    [raised |-> FALSE, msg |-> "", text |-> text, calls |-> <<Call(fn)>>]

\* fn was entered and raised Exception(msg)
Throws(fn, msg) ==
    [raised |-> TRUE, msg |-> msg, text |-> Plain(""), calls |-> <<Fault(fn, msg)>>]

\* mcp_server.py: returns the tasks (or an error) as JSON text; a tracker
\* answer whose tasks carry "priority": null makes line 85 raise.
get_tracker_tasks(priority) ==
    { Returns("get_tracker_tasks", Plain("tasks_json")),
      Throws("get_tracker_tasks", "'NoneType' object has no attribute 'get'") }

\* mcp_server.py: credentials missing or empty summary give an error text;
\* priority.lower() raises for a priority that is no string.
create_tracker_task(summary, description, priority) ==
    { Returns("create_tracker_task", Plain("error_json")) }
    \cup
    ( IF Falsy(summary)
      THEN {}
      ELSE IF ~IsStr(priority)
      THEN { Throws("create_tracker_task", "object has no attribute 'lower'") }
      ELSE { Returns("create_tracker_task", Plain("task_json")) } )

\* mcp_server.py: every fault is caught inside and reported in the text.
get_host_metrics ==
    { Returns("get_host_metrics", Plain("metrics_json")) }

\* git_mcp_server.py: REPO_PATH / file_path raises for a non-string.
get_file_content(file_path) ==
    IF IsStr(file_path)
    THEN { Returns("get_file_content", Plain("file_json")) }
    ELSE { Throws("get_file_content", "unsupported operand type(s) for /") }

\* git_mcp_server.py: the remaining git helpers catch their own faults.
git_helper(fn) == { Returns(fn, Plain("git_json")) }

NoGet == "object has no attribute 'get'"

\* a helper's outcome as the outcome of call_tool, which called it
Via(hs) == { [h EXCEPT !.calls = <<Call("call_tool")>> \o @] : h \in hs }

\* git_mcp_server.py call_tool(name, arguments)
call_tool(name, arguments) ==
    CASE name = PyStr("get-current-branch") -> Via(git_helper("get_current_branch"))
      [] name = PyStr("get-git-status") -> Via(git_helper("get_git_status"))
      [] name = PyStr("get-recent-commits") ->
            IF ~IsDict(arguments) THEN { Throws("call_tool", NoGet) }
            ELSE Via(git_helper("get_recent_commits"))
      [] name = PyStr("get-changed-files") -> Via(git_helper("get_changed_files"))
      [] name = PyStr("get-file-content") ->
            IF ~IsDict(arguments) THEN { Throws("call_tool", NoGet) }
            ELSE IF Falsy(Get(arguments, "file_path", None))
            THEN { Returns("call_tool", Plain("file_path is required")) }
            ELSE Via(get_file_content(Get(arguments, "file_path", None)))
      [] name = PyStr("get-git-diff") ->
            IF ~IsDict(arguments) THEN { Throws("call_tool", NoGet) }
            ELSE Via(git_helper("get_git_diff"))
      [] OTHER -> { Returns("call_tool", Fmt("Tool not found: ", name)) }

(***************************************************************************)
(* handle_websocket: the body of the inner try, per method.  Its outcome   *)
(* is what it sent (resp, at most one envelope), the handlers it entered   *)
(* (calls) and the exception it raised, if any.                            *)
(***************************************************************************)
Done(resp, calls) == [exc |-> "none", msg |-> "", resp |-> resp, calls |-> calls]

Raised(exc, msg, calls) == [exc |-> exc, msg |-> msg, resp |-> <<>>, calls |-> calls]

\* A handler's outcome turned into the try body's outcome.
ToolOutcome(request_id, h) ==
    IF h.raised
    THEN Raised("Exception", h.msg, h.calls)
    ELSE Done(<<ResultResponse(request_id, Content(h.text))>>, h.calls)

initialize_response(s, request_id) ==
    ResultResponse(request_id,
        [kind |-> "initialize", protocolVersion |-> "2024-11-05",
         serverInfo |-> IF s = "tracker" THEN "yandex-tracker-mcp-server"
                                         ELSE "git-mcp-server"])

tools_list_response(s, request_id) ==
    ResultResponse(request_id, [kind |-> "tools", tools |-> tools_list_result(s)])

tool_not_found_response(request_id, tool_name) ==
    ErrorResponse(request_id, TOOL_NOT_FOUND, Fmt("Tool not found: ", tool_name))

\* variant: an unknown method is reported as an internal error
method_not_found_response_wrong_code(request_id, method) ==
    ErrorResponse(request_id, INTERNAL_ERROR, Fmt("Method not found: ", method))

method_not_found_response(request_id, method) ==
    ErrorResponse(request_id, METHOD_NOT_FOUND, Fmt("Method not found: ", method))

parse_error_response ==
    ErrorResponse(None, PARSE_ERROR, Plain("Parse error"))

\* variant: the id of the failed request is lost
internal_error_response_no_id(request, msg) ==
    ErrorResponse(None, INTERNAL_ERROR, Fmt("Internal error: ", PyStr(msg)))

internal_error_response(request, msg) ==
    ErrorResponse(Get(request, "id", None), INTERNAL_ERROR, Fmt("Internal error: ", PyStr(msg)))

\* variant: the notification is acknowledged with a response
initialized_notification_acked(request_id) ==
    { Done(<<ResultResponse(request_id, [kind |-> "initialized"])>>, <<>>) }

\* method == "notifications/initialized": logged, nothing is sent
initialized_notification(request_id) ==
    { Done(<<>>, <<>>) }

\* mcp_server.py, method == "tools/call"
tracker_tools_call(request_id, params) ==
    IF ~IsDict(params) THEN { Raised("Exception", NoGet, <<>>) }
    ELSE
    LET tool_name == Get(params, "name", None)
        tool_args == Get(params, "arguments", EmptyDict)
    IN  CASE tool_name = PyStr("get-tracker-tasks") ->
                IF ~IsDict(tool_args) THEN { Raised("Exception", NoGet, <<>>) }
                ELSE { ToolOutcome(request_id, h) :
                         h \in get_tracker_tasks(Get(tool_args, "priority", None)) }
          [] tool_name = PyStr("create-tracker-task") ->
                IF ~IsDict(tool_args) THEN { Raised("Exception", NoGet, <<>>) }
                ELSE { ToolOutcome(request_id, h) :
                         h \in create_tracker_task(
                                  Get(tool_args, "summary", PyStr("")),
                                  Get(tool_args, "description", PyStr("")),
                                  Get(tool_args, "priority", PyStr("normal"))) }
          [] tool_name = PyStr("get-host-metrics") ->
                { ToolOutcome(request_id, h) : h \in get_host_metrics }
          [] OTHER ->
                { Done(<<tool_not_found_response(request_id, tool_name)>>, <<>>) }

\* git_mcp_server.py, method == "tools/call"
git_tools_call(request_id, params) ==
    IF ~IsDict(params) THEN { Raised("Exception", NoGet, <<>>) }
    ELSE { ToolOutcome(request_id, h) :
             h \in call_tool(Get(params, "name", None),
                             Get(params, "arguments", EmptyDict)) }

\* The dispatch on method, after request, method, request_id and params
\* were read from the decoded request.
dispatch(s, request) ==
    LET method == Get(request, "method", None)
        request_id == Get(request, "id", None)
        params == Get(request, "params", EmptyDict)
    IN  CASE method = PyStr("initialize") ->
                { Done(<<initialize_response(s, request_id)>>, <<>>) }
          [] method = PyStr("tools/list") ->
                { Done(<<tools_list_response(s, request_id)>>, <<>>) }
          [] method = PyStr("tools/call") ->
                IF s = "tracker" THEN tracker_tools_call(request_id, params)
                                 ELSE git_tools_call(request_id, params)
          [] method = PyStr("notifications/initialized") ->
                initialized_notification(request_id)
          [] OTHER ->
                { Done(<<method_not_found_response(request_id, method)>>, <<>>) }

\* The inner try block: json.loads, request.get(...), dispatch.
try_block(s, data) ==
    IF json_loads(data).raised THEN { Raised("JSONDecodeError", "", <<>>) }
    ELSE IF ~IsDict(json_loads(data).value) THEN { Raised("Exception", NoGet, <<>>) }
    ELSE dispatch(s, json_loads(data).value)

(***************************************************************************)
(* One iteration of the read loop once a text was received: the inner try  *)
(* with its two except clauses.  isOpen says whether the peer is still     *)
(* there when the iteration sends; send_text to a peer that is gone raises *)
(* or, with servers that drop such frames, does nothing.  alive says       *)
(* whether the loop goes on: an exception raised inside an except clause   *)
(* leaves the while loop and is logged by the outer except.  failed says   *)
(* that a send met a peer that was gone.                                   *)
(***************************************************************************)
Step(sent, calls, alive, failed) ==
    [sent |-> sent, calls |-> calls, alive |-> alive, failed |-> failed]

\* await websocket.send_text(json.dumps(response)) as the last statement
\* of an except clause
send_text(isOpen, response, calls) ==
    IF isOpen
    THEN { Step(<<response>>, calls, TRUE, FALSE) }
    ELSE { Step(<<>>, calls, TRUE, TRUE), Step(<<>>, calls, FALSE, TRUE) }

\* variant: the decode error is not caught by the inner try
except_JSONDecodeError_uncaught(isOpen) ==
    { Step(<<>>, <<>>, FALSE, FALSE) }

\* except json.JSONDecodeError
except_JSONDecodeError(isOpen) ==
    send_text(isOpen, parse_error_response, <<>>)

\* variant: a fault of the try body ends the read loop
except_Exception_uncaught(isOpen, request, msg, calls) ==
    { Step(<<>>, calls, FALSE, FALSE) }

\* except Exception: request is bound whenever this clause is reached,
\* because only json.loads precedes its assignment in the try.
except_Exception(isOpen, request, msg, calls) ==
    IF ~IsDict(request)
    THEN { Step(<<>>, calls, FALSE, FALSE) }
    ELSE send_text(isOpen, internal_error_response(request, msg), calls)

handle_message(s, data, isOpen) ==
    UNION { CASE t.exc = "JSONDecodeError" -> except_JSONDecodeError(isOpen)
              [] t.exc = "Exception" ->
                    except_Exception(isOpen, json_loads(data).value, t.msg, t.calls)
              [] OTHER ->
                    IF t.resp = <<>> THEN { Step(<<>>, t.calls, TRUE, FALSE) }
                    ELSE IF isOpen THEN { Step(t.resp, t.calls, TRUE, FALSE) }
                    ELSE { Step(<<>>, t.calls, TRUE, TRUE) }
                         \cup except_Exception(isOpen, json_loads(data).value,
                                               "send failed", t.calls)
          : t \in try_block(s, data) }

(***************************************************************************)
(* The texts the peers send.                                               *)
(***************************************************************************)
Request(fields) == Json(PyDict(fields))

CallParams(name, arguments) == PyDict([name |-> PyStr(name), arguments |-> arguments])

CommonTexts ==
    { Garbage,
      Json(PyList),
      Json(None),
      Request([id |-> PyInt(1), method |-> PyStr("initialize")]),
      Request([id |-> PyInt(2), method |-> PyStr("tools/list")]),
      Request([method |-> PyStr("notifications/initialized")]),
      Request([id |-> PyInt(4), method |-> PyStr("resources/list")]),
      Request([method |-> PyStr("notifications/cancelled")]),
      Request([id |-> PyInt(5)]),
      Request([id |-> PyInt(6), method |-> PyStr("tools/call"), params |-> PyList]),
      Request([id |-> PyInt(7), method |-> PyStr("tools/call"),
               params |-> PyDict([name |-> PyStr("no-such-tool")])]) }

TrackerTexts ==
    { Request([id |-> PyInt(11), method |-> PyStr("tools/call"),
               params |-> PyDict([name |-> PyStr("get-host-metrics")])]),
      Request([id |-> PyInt(12), method |-> PyStr("tools/call"),
               params |-> CallParams("get-tracker-tasks", EmptyDict)]),
      Request([id |-> PyInt(13), method |-> PyStr("tools/call"),
               params |-> CallParams("create-tracker-task", EmptyDict)]),
      Request([id |-> PyInt(14), method |-> PyStr("tools/call"),
               params |-> CallParams("create-tracker-task",
                                     PyDict([summary |-> PyInt(5)]))]),
      Request([id |-> PyInt(16), method |-> PyStr("tools/call"),
               params |-> CallParams("create-tracker-task",
                                     PyDict([summary |-> PyStr("s"),
                                             priority |-> PyInt(1)]))]) }

GitTexts ==
    { Request([id |-> PyInt(21), method |-> PyStr("tools/call"),
               params |-> PyDict([name |-> PyStr("get-current-branch")])]),
      Request([id |-> PyInt(23), method |-> PyStr("tools/call"),
               params |-> CallParams("get-file-content", EmptyDict)]),
      Request([id |-> PyInt(24), method |-> PyStr("tools/call"),
               params |-> CallParams("get-file-content",
                                     PyDict([file_path |-> PyInt(5)]))]),
      Request([id |-> PyInt(25), method |-> PyStr("tools/call"),
               params |-> CallParams("get-file-content",
                                     PyDict([file_path |-> PyStr("bot.py")]))]),
      Request([id |-> PyInt(26), method |-> PyStr("tools/call"),
               params |-> CallParams("get-git-diff", PyList)]) }

Texts(s) == CommonTexts \cup (IF s = "tracker" THEN TrackerTexts ELSE GitTexts)

(***************************************************************************)
(* One server process and its connections.  Each accepted connection runs  *)
(* handle_websocket as a task of its own and shares nothing with the       *)
(* others but the module-level functions.  Spec follows one connection;    *)
(* SpecMany lets all of them act.                                          *)
(***************************************************************************)
Conns == {"c1", "c2"}

VARIABLES
    srv,     \* the server the process runs: "tracker" or "git"
    pc,      \* per connection: "recv" (awaiting receive_text), "handling", "closed"
    open,    \* per connection: the server has not yet met the peer gone
    recvd,   \* per connection: the texts receive_text returned, in order
    sent,    \* per connection: the envelopes sent, each with the text it answers
    runs     \* per connection: the handler functions entered, each with its text

vars == <<srv, pc, open, recvd, sent, runs>>

\* GitMCPClient._call_tool_with_retry and the _call_tool it runs
VARIABLES
    max_retries,  \* self.max_retries
    attempt,      \* the loop variable of _call_tool_with_retry, 0 before the loop
    cpc,          \* the client's position
    conns,        \* the connections websocket_client opened, in order
    wire,         \* the responses to the current call on their way to the client
    answered,     \* how many responses the server has emitted for the current call
    result,       \* what the current _call_tool returns
    tries,        \* one entry per _call_tool that returned: how it ended
    waits,        \* the asyncio.sleep calls made, in order
    returned      \* what _call_tool_with_retry returned; NotYet before

cvars == <<max_retries, attempt, cpc, conns, wire, answered, result, tries,
           waits, returned>>

\* GitMCPClientSync._run_async, call_mcp_tool_sync, call_mcp_tool_sync_on_server
VARIABLES
    tpc,     \* per thread: its position in the synchronous wrapper
    tloop,   \* per thread: the local variable loop (0: not bound)
    loops,   \* the event loops created, in order
    tcalls   \* per thread: the synchronous calls it has finished

lvars == <<tpc, tloop, loops, tcalls>>

\* bot.py: execute_tasks_pipeline, and the conversation history kept by
\* ask_question, /compress and /clear
VARIABLES
    pin,      \* what the three collaborators of the pipeline will answer
    ppc,      \* the pipeline's position
    presult,  \* the dict result of execute_tasks_pipeline
    psteps,   \* the steps the pipeline has started, in order, each with its outcome
    history,  \* context.user_data['conversation_history']
    asked,    \* the updates handled so far
    hcomp     \* the history as the last compression left it; <<>> when none

bvars == <<pin, ppc, presult, psteps, history, asked, hcomp>>

allvars == <<vars, cvars, lvars, bvars>>

Threads == {"t1", "t2"}

NotYet == [py |-> "pending"]

\* no client call is made
ClientIdle ==
    /\ max_retries = 0
    /\ attempt = 0
    /\ cpc = "idle"
    /\ conns = <<>>
    /\ wire = <<>>
    /\ answered = 0
    /\ result = None
    /\ tries = <<>>
    /\ waits = <<>>
    /\ returned = NotYet

\* no synchronous wrapper is called
SyncIdle ==
    /\ tpc = [t \in Threads |-> "idle"]
    /\ tloop = [t \in Threads |-> 0]
    /\ loops = <<>>
    /\ tcalls = [t \in Threads |-> 0]

\* result = {"success": False, "step": "none", ...}
new_result ==
    [success |-> FALSE, step |-> "none", tasks_json |-> None, analysis |-> None,
     translation |-> None, error |-> None]

\* the bot handles no update and runs no pipeline
BotIdle ==
    /\ pin = [fetch |-> None, analyze |-> None, translate |-> None]
    /\ ppc = "idle"
    /\ presult = new_result
    /\ psteps = <<>>
    /\ history = <<>>
    /\ asked = 0
    /\ hcomp = <<>>

\* every connection accepted, nothing received yet
Accepted ==
    /\ pc = [c \in Conns |-> "recv"]
    /\ open = [c \in Conns |-> TRUE]
    /\ recvd = [c \in Conns |-> <<>>]
    /\ sent = [c \in Conns |-> <<>>]
    /\ runs = [c \in Conns |-> <<>>]

Init ==
    /\ srv \in Servers
    /\ Accepted
    /\ ClientIdle
    /\ SyncIdle
    /\ BotIdle

server(c) == srv

Total == Len(recvd["c1"]) + Len(recvd["c2"])

Tag(n, seq) == [i \in 1..Len(seq) |-> [about |-> n, what |-> seq[i]]]

\* variant: the next text is read while the last one is still being handled
ReceiveWhileHandling(c) ==
    /\ pc[c] \in {"recv", "handling"}
    /\ open[c]
    /\ Total < MaxMsgs
    /\ \E data \in Texts(server(c)) :
          recvd' = [recvd EXCEPT ![c] = Append(@, data)]
    /\ pc' = [pc EXCEPT ![c] = "handling"]
    /\ UNCHANGED <<srv, open, sent, runs, cvars, lvars, bvars>>

\* data = await websocket.receive_text()
Receive(c) ==
    /\ pc[c] = "recv"
    /\ open[c]
    /\ Total < MaxMsgs
    /\ \E data \in Texts(server(c)) :
          recvd' = [recvd EXCEPT ![c] = Append(@, data)]
    /\ pc' = [pc EXCEPT ![c] = "handling"]
    /\ UNCHANGED <<srv, open, sent, runs, cvars, lvars, bvars>>

\* variant: the disconnect is read as an empty text and the loop goes on
ReceiveEmpty(c) ==
    /\ pc[c] = "recv"
    /\ open' = [open EXCEPT ![c] = FALSE]
    /\ UNCHANGED <<srv, pc, recvd, sent, runs, cvars, lvars, bvars>>

\* receive_text raises WebSocketDisconnect: the outer except ends the loop
ReceiveDisconnect(c) ==
    /\ pc[c] = "recv"
    /\ pc' = [pc EXCEPT ![c] = "closed"]
    /\ open' = [open EXCEPT ![c] = FALSE]
    /\ UNCHANGED <<srv, recvd, sent, runs, cvars, lvars, bvars>>

\* variant: an exception leaving one connection's task ends the others too
outer_except_all(pcs, c, alive) ==
    IF alive THEN [pcs EXCEPT ![c] = "recv"] ELSE [d \in Conns |-> "closed"]

\* the outer except of handle_websocket: a fault that leaves the loop ends
\* this connection's task
outer_except(pcs, c, alive) ==
    [pcs EXCEPT ![c] = IF alive THEN "recv" ELSE "closed"]

\* the inner try and its except clauses, for the text just received; the
\* peer may have gone by the time the iteration sends
Process(c) ==
    /\ pc[c] = "handling"
    /\ \E isOpen \in BOOLEAN :
       \E o \in handle_message(server(c), recvd[c][Len(recvd[c])], isOpen) :
          /\ isOpen \/ o.failed
          /\ sent' = [sent EXCEPT ![c] = @ \o Tag(Len(recvd[c]), o.sent)]
          /\ runs' = [runs EXCEPT ![c] = @ \o Tag(Len(recvd[c]), o.calls)]
          /\ pc' = outer_except(pc, c, o.alive)
          /\ open' = [open EXCEPT ![c] = ~o.failed]
    /\ UNCHANGED <<srv, recvd, cvars, lvars, bvars>>

Next ==
    \E c \in {"c1"} :
        \/ Receive(c)
        \/ ReceiveDisconnect(c)
        \/ Process(c)

Spec == Init /\ [][Next]_allvars

\* every connection of the server acts
NextMany ==
    \E c \in Conns :
        \/ Receive(c)
        \/ ReceiveDisconnect(c)
        \/ Process(c)

SpecMany == Init /\ [][NextMany]_allvars

TypeOK ==
    /\ srv \in Servers
    /\ pc \in [Conns -> {"recv", "handling", "closed"}]
    /\ open \in [Conns -> BOOLEAN]
    /\ \A c \in Conns : \A i \in 1..Len(recvd[c]) : recvd[c][i] \in Texts(server(c))

(***************************************************************************)
(* Vocabulary of the properties.                                           *)
(***************************************************************************)
\* the envelopes sent in answer to the n-th text of connection c
Responses(c, n) == SelectSeq(sent[c], LAMBDA e : e.about = n)

\* the handler functions entered for the n-th text of connection c
Entered(c, n) == SelectSeq(runs[c], LAMBDA e : e.about = n)

\* the loop iteration of the n-th text is over
Handled(c, n) == n < Len(recvd[c]) \/ pc[c] # "handling"

\* the iteration of the n-th text is over and the peer was there throughout
Served(c, n) == Handled(c, n) /\ open[c]

IsObject(data) == ~json_loads(data).raised /\ IsDict(json_loads(data).value)

Obj(data) == json_loads(data).value

HasId(data) == "id" \in DOMAIN Obj(data).d

IdOf(data) == Get(Obj(data), "id", None)

HasMethod(data) == "method" \in DOMAIN Obj(data).d

MethodOf(data) == Get(Obj(data), "method", None)

ParamsOf(data) == Get(Obj(data), "params", EmptyDict)

KnownMethods ==
    { PyStr("initialize"), PyStr("tools/list"), PyStr("tools/call"),
      PyStr("notifications/initialized") }

\* a JSON object with an id and a method other than the initialized notification
IsRequest(data) ==
    /\ IsObject(data)
    /\ HasId(data)
    /\ HasMethod(data)
    /\ MethodOf(data) # PyStr("notifications/initialized")

IsInitialized(data) ==
    IsObject(data) /\ MethodOf(data) = PyStr("notifications/initialized")

IsToolCall(data) ==
    IsObject(data) /\ MethodOf(data) = PyStr("tools/call") /\ IsDict(ParamsOf(data))

ToolName(data) == Get(ParamsOf(data), "name", None)

ToolArgs(data) == Get(ParamsOf(data), "arguments", EmptyDict)

\* exactly one envelope answers the n-th text, and it carries the text's id
OneResponse(c, n) ==
    /\ Len(Responses(c, n)) = 1
    /\ Responses(c, n)[1].what.id = IdOf(recvd[c][n])

Answer(c, n) == Responses(c, n)[1].what

\* some handler entered for the n-th text raised
HandlerRaised(c, n) ==
    \E i \in 1..Len(Entered(c, n)) : Entered(c, n)[i].what.fault # ""

\* a handler was entered for the n-th text and none raised
HandlerReturned(c, n) ==
    /\ Entered(c, n) # <<>>
    /\ ~HandlerRaised(c, n)

(***************************************************************************)
(* C1.  On one server connection every inbound JSON object that carries    *)
(* an id and a request method (initialize, tools/list, tools/call or an    *)
(* unknown method) gets exactly one response envelope, never two, and the  *)
(* response carries the request's id, whether the handler returns or       *)
(* raises.  (As long as the peer is there to be sent to.)                  *)
(***************************************************************************)
C1_ExactlyOneResponse ==
    \A c \in Conns : \A n \in 1..Len(recvd[c]) :
        IsRequest(recvd[c][n]) =>
            /\ Len(Responses(c, n)) <= 1
            /\ \A i \in 1..Len(Responses(c, n)) :
                   Responses(c, n)[i].what.id = IdOf(recvd[c][n])
            /\ Served(c, n) => OneResponse(c, n)

\* one connection answered a call whose handler raised and a call whose
\* handler returned, each once
C1_Witness ==
    \E c \in Conns : \E n, m \in 1..Len(recvd[c]) :
        /\ IsRequest(recvd[c][n]) /\ IsRequest(recvd[c][m])
        /\ HandlerRaised(c, n) /\ OneResponse(c, n) /\ IsError(Answer(c, n))
        /\ HandlerReturned(c, m) /\ OneResponse(c, m) /\ IsResult(Answer(c, m))

(***************************************************************************)
(* C2.  A text that cannot be decoded is answered with exactly one         *)
(* parse-error response whose id is null; no fault leaves the read loop;   *)
(* the next well-formed request on the connection is answered normally.    *)
(***************************************************************************)
C2_ParseErrorAnswered ==
    \A c \in Conns : \A n \in 1..Len(recvd[c]) :
        (json_loads(recvd[c][n]).raised /\ Served(c, n)) =>
            /\ Len(Responses(c, n)) = 1
            /\ IsError(Answer(c, n))
            /\ Answer(c, n).id = None
            /\ Answer(c, n).error.code = PARSE_ERROR
            /\ Entered(c, n) = <<>>
            /\ n = Len(recvd[c]) => pc[c] = "recv"
            /\ (n < Len(recvd[c]) /\ IsRequest(recvd[c][n + 1]) /\ Served(c, n + 1)) =>
                   /\ OneResponse(c, n + 1)
                   /\ Answer(c, n + 1) \in
                         { o.sent[1] : o \in
                             { x \in handle_message(server(c), recvd[c][n + 1], TRUE) :
                                 x.sent # <<>> } }

\* a connection answered an undecodable text with the parse error and then
\* answered a well-formed request with a result
C2_Witness ==
    \E c \in Conns :
        /\ Len(recvd[c]) = 2
        /\ json_loads(recvd[c][1]).raised
        /\ Len(Responses(c, 1)) = 1 /\ Answer(c, 1).error.code = PARSE_ERROR
        /\ IsRequest(recvd[c][2]) /\ OneResponse(c, 2) /\ IsResult(Answer(c, 2))

(***************************************************************************)
(* C3.  Every protocol fault is answered with a structured error response  *)
(* and leaves the connection open: text that is not JSON, JSON that is no  *)
(* object, a call whose params is no map, an object without a method, an   *)
(* unknown method; the read loop never ends because of such a text.        *)
(* (For params that is no map the statement is taken for tools/call, the   *)
(* one method that reads params.)                                          *)
(***************************************************************************)
IsProtocolFault(data) ==
    \/ json_loads(data).raised
    \/ ~IsObject(data)
    \/ (MethodOf(data) = PyStr("tools/call") /\ ~IsDict(ParamsOf(data)))
    \/ (HasId(data) /\ MethodOf(data) \notin KnownMethods)

C3_ProtocolFaultsAnswered ==
    \A c \in Conns : \A n \in 1..Len(recvd[c]) :
        (IsProtocolFault(recvd[c][n]) /\ Served(c, n)) =>
            /\ Len(Responses(c, n)) = 1
            /\ IsError(Answer(c, n))
            /\ pc[c] # "closed"

(***************************************************************************)
(* C4.  A request whose method is none of initialize, tools/list,          *)
(* tools/call or notifications/initialized is answered with an error       *)
(* response carrying the method-not-found code and the request's id, and   *)
(* no tool handler is run for it.                                          *)
(***************************************************************************)
IsUnknownMethodRequest(data) ==
    IsObject(data) /\ HasId(data) /\ MethodOf(data) \notin KnownMethods

C4_MethodNotFound ==
    \A c \in Conns : \A n \in 1..Len(recvd[c]) :
        IsUnknownMethodRequest(recvd[c][n]) =>
            /\ Entered(c, n) = <<>>
            /\ Served(c, n) =>
                  /\ OneResponse(c, n)
                  /\ IsError(Answer(c, n))
                  /\ Answer(c, n).error.code = METHOD_NOT_FOUND
                  /\ Answer(c, n).error.code = -32601

\* an unknown method and an object without a method were both answered so
C4_Witness ==
    \E c \in Conns : \E n, m \in 1..Len(recvd[c]) :
        /\ IsUnknownMethodRequest(recvd[c][n]) /\ HasMethod(recvd[c][n])
        /\ IsUnknownMethodRequest(recvd[c][m]) /\ ~HasMethod(recvd[c][m])
        /\ OneResponse(c, n) /\ Answer(c, n).error.code = METHOD_NOT_FOUND
        /\ OneResponse(c, m) /\ Answer(c, m).error.code = METHOD_NOT_FOUND

(***************************************************************************)
(* C5.  The initialized notification makes the server send nothing and     *)
(* changes no server state: the responses to the other texts of the        *)
(* connection are those the server gives when the notification is never    *)
(* received.                                                               *)
(***************************************************************************)
Whats(seq) == [i \in 1..Len(seq) |-> seq[i].what]

WithoutInitialized(texts) == SelectSeq(texts, LAMBDA d : ~IsInitialized(d))

RECURSIVE Outputs(_, _)
\* what a connection of server s may send, in order, when it receives texts
\* from a peer that stays
Outputs(s, texts) ==
    IF texts = <<>>
    THEN { <<>> }
    ELSE { o.sent \o rest : o \in handle_message(s, Head(texts), TRUE),
                            rest \in Outputs(s, Tail(texts)) }

\* handling the notification sends nothing, enters no handler, keeps the loop
C5_NotificationStep ==
    \A c \in Conns :
        ( /\ pc[c] = "handling"
          /\ IsInitialized(recvd[c][Len(recvd[c])])
          /\ pc'[c] # "handling" ) =>
            /\ sent' = sent
            /\ runs' = runs
            /\ open' = open
            /\ recvd' = recvd
            /\ pc'[c] = "recv"

\* what was sent is what is sent for the same texts without the notifications
C5_SameWithout ==
    \A c \in Conns :
        (open[c] /\ pc[c] # "handling") =>
            Whats(sent[c]) \in Outputs(server(c), WithoutInitialized(recvd[c]))

C5_InitializedIsInert == [][C5_NotificationStep]_vars /\ []C5_SameWithout

\* a notification was handled and the request after it got its result
C5_Witness ==
    \E c \in Conns :
        /\ Len(recvd[c]) = 2
        /\ IsInitialized(recvd[c][1])
        /\ Responses(c, 1) = <<>>
        /\ IsRequest(recvd[c][2]) /\ OneResponse(c, 2) /\ IsResult(Answer(c, 2))

(***************************************************************************)
(* C6.  A tools/call naming a tool that is not registered is answered      *)
(* with a tool-not-found error response (error set, not a result) on the   *)
(* tracker server and on the git server, and the connection stays usable.  *)
(***************************************************************************)
Names(tools) == { PyStr(tools[i].name) : i \in 1..Len(tools) }

RegisteredNames(s) == Names(list_tools(s)) \cup Names(tools_list_result(s))

IsUnknownToolCall(s, data) ==
    IsToolCall(data) /\ HasId(data) /\ ToolName(data) \notin RegisteredNames(s)

C6_UnknownToolIsError ==
    \A c \in Conns : \A n \in 1..Len(recvd[c]) :
        (IsUnknownToolCall(server(c), recvd[c][n]) /\ Served(c, n)) =>
            /\ OneResponse(c, n)
            /\ IsError(Answer(c, n))
            /\ n = Len(recvd[c]) => pc[c] = "recv"

(***************************************************************************)
(* C7.  When the handler of a tools/call raises, the fault is caught and   *)
(* turned into an error response carrying the request's id and the         *)
(* original fault message; the session is not crashed, and the calls to    *)
(* other tools on the same connection, before or after, whose handlers     *)
(* return still get their results.                                         *)
(***************************************************************************)
FaultOf(c, n) ==
    (CHOOSE e \in { Entered(c, n)[i] : i \in 1..Len(Entered(c, n)) } :
        e.what.fault # "").what.fault

C7_HandlerFaultIsolated ==
    \A c \in Conns : \A n \in 1..Len(recvd[c]) :
        (HandlerRaised(c, n) /\ Served(c, n)) =>
            /\ OneResponse(c, n)
            /\ IsError(Answer(c, n))
            /\ Answer(c, n).error.code = INTERNAL_ERROR
            /\ Answer(c, n).error.message.arg = PyStr(FaultOf(c, n))
            /\ n = Len(recvd[c]) => pc[c] = "recv"
            /\ \A m \in 1..Len(recvd[c]) :
                  (HandlerReturned(c, m) /\ Served(c, m)) =>
                      /\ OneResponse(c, m)
                      /\ IsResult(Answer(c, m))

\* a handler raised for the first call of a connection, the fault was
\* answered, and the call to another tool after it got its result
C7_Witness ==
    \E c \in Conns :
        /\ Len(recvd[c]) = 2
        /\ HandlerRaised(c, 1) /\ OneResponse(c, 1) /\ IsError(Answer(c, 1))
        /\ Answer(c, 1).error.message.arg = PyStr(FaultOf(c, 1))
        /\ IsToolCall(recvd[c][2]) /\ ToolName(recvd[c][2]) # ToolName(recvd[c][1])
        /\ HandlerReturned(c, 2) /\ OneResponse(c, 2) /\ IsResult(Answer(c, 2))

(***************************************************************************)
(* C8.  A tools/call whose arguments miss a key the tool's descriptor      *)
(* declares required (file_path for get-file-content, summary for          *)
(* create-tracker-task) or give it the wrong primitive type fails with an  *)
(* invalid-arguments error, and the tool's handler is never entered.       *)
(***************************************************************************)
Descriptors(s) ==
    { tools_list_result(s)[i] : i \in 1..Len(tools_list_result(s)) }

Required(d) == { d.inputSchema.required[i] : i \in 1..Len(d.inputSchema.required) }

\* the Python type a JSON-schema type name stands for
PyType(t) == IF t = "string" THEN "str" ELSE IF t = "integer" THEN "int" ELSE t

\* arguments args break descriptor d's required-field contract
BreaksContract(d, args) ==
    \/ \E k \in Required(d) : k \notin DOMAIN args.d
    \/ \E p \in d.inputSchema.properties :
          /\ p[1] \in Required(d)
          /\ p[1] \in DOMAIN args.d
          /\ args.d[p[1]].py # PyType(p[2])

HandlerOf(tool_name) ==
    IF tool_name = PyStr("get-file-content") THEN "get_file_content"
    ELSE IF tool_name = PyStr("create-tracker-task") THEN "create_tracker_task"
    ELSE "none"

IsInvalidCall(s, data) ==
    /\ IsToolCall(data)
    /\ IsDict(ToolArgs(data))
    /\ \E d \in Descriptors(s) :
          PyStr(d.name) = ToolName(data) /\ BreaksContract(d, ToolArgs(data))

C8_ArgumentsCheckedFirst ==
    \A c \in Conns : \A n \in 1..Len(recvd[c]) :
        IsInvalidCall(server(c), recvd[c][n]) =>
            /\ \A i \in 1..Len(Entered(c, n)) :
                  Entered(c, n)[i].what.fn # HandlerOf(ToolName(recvd[c][n]))
            /\ Served(c, n) => (OneResponse(c, n) /\ IsError(Answer(c, n)))

(***************************************************************************)
(* C9.  The descriptor list returned for tools/list is exactly the list    *)
(* registered with the server's registry at startup (list_tools): same     *)
(* names, descriptions and input schemas, in registration order; the same  *)
(* after any earlier requests; no name appears twice.                      *)
(***************************************************************************)
IsListTools(data) ==
    IsObject(data) /\ HasId(data) /\ MethodOf(data) = PyStr("tools/list")

NoDuplicateNames(tools) ==
    \A i, j \in 1..Len(tools) : tools[i].name = tools[j].name => i = j

C9_ListIsRegistry ==
    \A c \in Conns : \A n \in 1..Len(recvd[c]) :
        (IsListTools(recvd[c][n]) /\ Served(c, n)) =>
            /\ OneResponse(c, n)
            /\ IsResult(Answer(c, n))
            /\ Answer(c, n).result.tools = list_tools(server(c))
            /\ NoDuplicateNames(Answer(c, n).result.tools)

(***************************************************************************)
(* C10.  Each error category a server surfaces (parse error, method not    *)
(* found, tool not found, invalid arguments, internal error) has its own   *)
(* integer code: two error responses of different categories never carry   *)
(* the same code.                                                          *)
(***************************************************************************)
\* the category an error response names in its message
Category(env) == env.error.message.prefix

C10_CodesTellCategories ==
    \A c \in Conns : \A i, j \in 1..Len(sent[c]) :
        ( /\ IsError(sent[c][i].what)
          /\ IsError(sent[c][j].what)
          /\ Category(sent[c][i].what) # Category(sent[c][j].what) ) =>
            sent[c][i].what.error.code # sent[c][j].what.error.code


(***************************************************************************)
(* The client: GitMCPClient._call_tool_with_retry and the _call_tool it    *)
(* awaits (pr_review/mcp_client.py).  bot.py's call_mcp_tool is the same   *)
(* _call_tool with a fixed timeout and no retry around it.                 *)
(***************************************************************************)
MaxRetries == 3

\* the messages a server may put on the wire in answer to tools/call
ReplyText == [kind |-> "result", content |-> <<"text">>]

ReplyEmpty == [kind |-> "result", content |-> <<>>]

ReplyError == [kind |-> "error", content |-> <<>>]

Replies == {ReplyText, ReplyEmpty, ReplyError}

\* if result.content and len(result.content) > 0: return result.content[0].text
extract_text(reply) ==
    IF reply.content # <<>> THEN PyStr(reply.content[1]) ELSE None

\* except asyncio.TimeoutError: ... return None
except_TimeoutError == None

\* variant: the exception is raised to the caller
reraise == [py |-> "exception"]

\* except Exception as e: ... return None
call_tool_except_Exception == None

\* variant: a session whose handshake failed goes on to the call
handshake_failed_calls == "call"

\* an exception of wait_for(session.initialize()) leaves the try body
handshake_failed == "exit"

\* variant: the client tells the server that it stopped waiting
send_cancel(conn) == [conn EXCEPT !.cancels = @ + 1]

\* wait_for cancels the local wait; nothing is sent on the connection
on_timeout(conn) == conn

\* variant: the request is sent twice
send_twice(n) == n + 2

\* session.call_tool sends one tools/call request
send_request(n) == n + 1

\* variant: every backoff wait is the same
wait_time_flat(n) == 2

\* variant: the backoff grows by one time unit per attempt
wait_time_linear(n) == n + 1

\* wait_time = 2 ** attempt
wait_time(n) == 2 ^ n

\* variant: the loop makes one attempt more than max_retries
range_one_more(n, retries) == n < retries + 1

\* for attempt in range(1, self.max_retries + 1): there is a next attempt
range_has_next(n, retries) == n < retries

\* variant: a response that arrives after the call was decided replaces its outcome
deliver_late(value, reply) == extract_text(reply)

\* a response for a call whose wait_for is over finds no waiter: the local
\* result is left as it is
drop_late(value, reply) == value

\* variant: the connection is left open when _call_tool returns
leave_open(conn) == conn

\* leaving `async with websocket_client(...)` closes the connection
close(conn) == [conn EXCEPT !.state = "closed"]

\* _call_tool_with_retry is called
ClientStart ==
    /\ max_retries \in 0..MaxRetries
    /\ attempt = 0
    /\ cpc = "loop"
    /\ conns = <<>>
    /\ wire = <<>>
    /\ answered = 0
    /\ result = None
    /\ tries = <<>>
    /\ waits = <<>>
    /\ returned = NotYet

ClientInit ==
    /\ ClientStart
    /\ srv = "git"
    /\ Accepted
    /\ SyncIdle
    /\ BotIdle

\* the outcome of the running _call_tool is decided: value is what it will
\* return, cause and stage say why; the connection, if any, is still to be left
Decide(value, cause, stage, next) ==
    /\ result' = value
    /\ tries' = Append(tries, [attempt |-> attempt, value |-> value,
                               cause |-> cause, stage |-> stage])
    /\ cpc' = next

\* line 115: the head of the for loop, and lines 129-130 after it
call_tool_with_retry_loop ==
    /\ cpc = "loop"
    /\ IF range_has_next(attempt, max_retries)
       THEN /\ attempt' = attempt + 1
            /\ cpc' = "connect"
            /\ UNCHANGED returned
       ELSE /\ cpc' = "done"
            /\ returned' = None
            /\ UNCHANGED attempt
    /\ wire' = <<>>
    /\ answered' = 0
    /\ UNCHANGED <<vars, lvars, bvars>>
    /\ UNCHANGED <<max_retries, conns, result, tries, waits>>

\* line 67: async with websocket_client(self.server_url); a refused
\* connection raises into except Exception
websocket_client ==
    /\ cpc = "connect"
    /\ \/ /\ conns' = Append(conns, [attempt |-> attempt, state |-> "open",
                                     handshakes |-> 0, initialized |-> FALSE,
                                     calls |-> 0, cancels |-> 0])
          /\ cpc' = "initialize"
          /\ UNCHANGED <<result, tries>>
       \/ /\ Decide(call_tool_except_Exception, "transport", "connect", "check")
          /\ UNCHANGED conns
    /\ UNCHANGED <<vars, lvars, bvars>>
    /\ UNCHANGED <<max_retries, attempt, wire, answered, waits, returned>>

\* line 73: session.initialize() sends the initialize request
session_initialize ==
    /\ cpc = "initialize"
    /\ conns' = [conns EXCEPT ![Len(conns)].handshakes = @ + 1]
    /\ cpc' = "handshake"
    /\ UNCHANGED <<vars, lvars, bvars>>
    /\ UNCHANGED <<max_retries, attempt, wire, answered, result, tries, waits,
                   returned>>

\* line 73: wait_for(session.initialize(), timeout=10.0) returns with the
\* server's acknowledgement, times out, or meets a connection error
initialize_returns ==
    /\ cpc = "handshake"
    /\ \/ /\ conns' = [conns EXCEPT ![Len(conns)].initialized = TRUE]
          /\ cpc' = "call"
          /\ UNCHANGED <<result, tries>>
       \/ /\ Decide(except_TimeoutError, "timeout", "initialize", handshake_failed)
          /\ UNCHANGED conns
       \/ /\ Decide(call_tool_except_Exception, "transport", "initialize",
                    handshake_failed)
          /\ UNCHANGED conns
    /\ UNCHANGED <<vars, lvars, bvars>>
    /\ UNCHANGED <<max_retries, attempt, wire, answered, waits, returned>>

\* lines 78-81: session.call_tool sends the request and wait_for starts
session_call_tool ==
    /\ cpc = "call"
    /\ conns' = [conns EXCEPT ![Len(conns)].calls = send_request(@)]
    /\ cpc' = "wait"
    /\ UNCHANGED <<vars, lvars, bvars>>
    /\ UNCHANGED <<max_retries, attempt, wire, answered, result, tries, waits,
                   returned>>

\* the server's response to the call, or a duplicate of it, is on its way
server_responds ==
    /\ cpc \in {"wait", "exit"}
    /\ conns[Len(conns)].calls > 0
    /\ wire = <<>>
    /\ answered < 2
    /\ \E reply \in Replies : wire' = <<reply>>
    /\ answered' = answered + 1
    /\ UNCHANGED <<vars, lvars, bvars>>
    /\ UNCHANGED <<max_retries, attempt, cpc, conns, result, tries, waits,
                   returned>>

\* wait_for returns the response (lines 84-89), or session.call_tool raises
\* for an error response (except Exception)
wait_for_returns ==
    /\ cpc = "wait"
    /\ wire # <<>>
    /\ IF Head(wire).kind = "result"
       THEN Decide(extract_text(Head(wire)),
                   IF Head(wire).content # <<>> THEN "none" ELSE "empty",
                   "call", "exit")
       ELSE Decide(call_tool_except_Exception, "application", "call", "exit")
    /\ wire' = <<>>
    /\ UNCHANGED <<vars, lvars, bvars>>
    /\ UNCHANGED <<max_retries, attempt, conns, answered, waits, returned>>

\* wait_for raises asyncio.TimeoutError (lines 91-93), also when a response
\* is arriving at that moment
wait_for_TimeoutError ==
    /\ cpc = "wait"
    /\ Decide(except_TimeoutError, "timeout", "call", "exit")
    /\ conns' = [conns EXCEPT ![Len(conns)] = on_timeout(@)]
    /\ UNCHANGED <<vars, lvars, bvars>>
    /\ UNCHANGED <<max_retries, attempt, wire, answered, waits, returned>>

\* the connection drops while the call waits (lines 94-96)
connection_lost ==
    /\ cpc = "wait"
    /\ Decide(call_tool_except_Exception, "transport", "call", "exit")
    /\ UNCHANGED <<vars, lvars, bvars>>
    /\ UNCHANGED <<max_retries, attempt, conns, wire, answered, waits, returned>>

\* a response reaches the client after the call's wait_for is over
late_response ==
    /\ cpc \in {"exit", "check", "sleep"}
    /\ wire # <<>>
    /\ result' = drop_late(result, Head(wire))
    /\ wire' = <<>>
    /\ UNCHANGED <<vars, lvars, bvars>>
    /\ UNCHANGED <<max_retries, attempt, cpc, conns, answered, tries, waits,
                   returned>>

\* the return or the exception leaves both async with blocks
async_with_exit ==
    /\ cpc = "exit"
    /\ conns' = [conns EXCEPT ![Len(conns)] = close(@)]
    /\ cpc' = "check"
    /\ UNCHANGED <<vars, lvars, bvars>>
    /\ UNCHANGED <<max_retries, attempt, wire, answered, result, tries, waits,
                   returned>>

\* lines 118-123: result is back in _call_tool_with_retry
check_result ==
    /\ cpc = "check"
    /\ IF result # None
       THEN /\ returned' = result
            /\ cpc' = "done"
       ELSE /\ cpc' = IF attempt < max_retries THEN "sleep" ELSE "loop"
            /\ UNCHANGED returned
    /\ UNCHANGED <<vars, lvars, bvars>>
    /\ UNCHANGED <<max_retries, attempt, conns, wire, answered, result, tries,
                   waits>>

\* lines 125-127: await asyncio.sleep(wait_time)
asyncio_sleep ==
    /\ cpc = "sleep"
    /\ waits' = Append(waits, [after |-> attempt, time |-> wait_time(attempt)])
    /\ cpc' = "loop"
    /\ UNCHANGED <<vars, lvars, bvars>>
    /\ UNCHANGED <<max_retries, attempt, conns, wire, answered, result, tries,
                   returned>>

ClientNext ==
    \/ call_tool_with_retry_loop
    \/ websocket_client
    \/ session_initialize
    \/ initialize_returns
    \/ session_call_tool
    \/ server_responds
    \/ wait_for_returns
    \/ wait_for_TimeoutError
    \/ connection_lost
    \/ late_response
    \/ async_with_exit
    \/ check_result
    \/ asyncio_sleep

ClientSpec == ClientInit /\ [][ClientNext]_allvars


(***************************************************************************)
(* Vocabulary of the client properties.                                    *)
(***************************************************************************)
\* the i-th _call_tool has returned to _call_tool_with_retry
CallReturned(i) == i < Len(tries) \/ cpc \notin {"exit"}

\* the connections opened by attempt i
ConnsOf(i) == SelectSeq(conns, LAMBDA k : k.attempt = i)

\* the i-th attempt could not connect
ConnectFailed(i) == tries[i].cause = "transport" /\ tries[i].stage = "connect"

\* the i-th attempt connected and the server answered its call with a text
Answered(i) == tries[i].cause = "none"

InAttempt ==
    cpc \in {"connect", "initialize", "handshake", "call", "wait", "exit", "check"}

(***************************************************************************)
(* C11.  A call that gets no response within its timeout returns a timeout *)
(* error and its connection is not torn down by the timeout: once          *)
(* _call_tool has returned because wait_for(call_tool) timed out, the      *)
(* connection it used is still open (so that a later call may use it).     *)
(***************************************************************************)
C11_TimeoutKeepsSession ==
    \A i \in 1..Len(tries) :
        ( /\ tries[i].cause = "timeout"
          /\ tries[i].stage = "call"
          /\ CallReturned(i) ) =>
            \A k \in 1..Len(conns) :
                conns[k].attempt = i => conns[k].state = "open"

(***************************************************************************)
(* C12.  For every k >= 0 and max_retries > k: when the first k attempts   *)
(* cannot connect and attempt k+1 connects and is served, the retrying     *)
(* call returns that attempt's text, has made exactly k+1 connection       *)
(* attempts, and the k waits between them are strictly increasing.         *)
(***************************************************************************)
C12_RetryRecovers ==
    \A k \in 0..MaxRetries :
        ( /\ cpc = "done"
          /\ max_retries > k
          /\ Len(tries) > k
          /\ \A i \in 1..k : ConnectFailed(i)
          /\ Answered(k + 1) ) =>
            /\ IsStr(returned)
            /\ returned = tries[k + 1].value
            /\ Len(tries) = k + 1
            /\ attempt = k + 1
            /\ Len(conns) = 1
            /\ Len(waits) = k
            /\ \A i, j \in 1..Len(waits) : i < j => waits[i].time < waits[j].time

\* two refused connections, then the third attempt is served
C12_Witness ==
    /\ cpc = "done"
    /\ Len(tries) = 3
    /\ ConnectFailed(1) /\ ConnectFailed(2) /\ Answered(3)
    /\ IsStr(returned)
    /\ Len(waits) = 2

(***************************************************************************)
(* C13.  Attempts are numbered from 1; the wait after failed attempt n is  *)
(* 2^n time units; there is one wait between two consecutive attempts,     *)
(* none before the first attempt and none after the last failed attempt.   *)
(***************************************************************************)
C13_BackoffSchedule ==
    /\ \A i \in 1..Len(waits) : waits[i].after = i /\ waits[i].time = 2 ^ i
    /\ \A i \in 1..Len(tries) : tries[i].attempt = i
    /\ InAttempt => Len(waits) = attempt - 1
    /\ cpc = "sleep" => Len(waits) = attempt - 1 /\ attempt < max_retries
    /\ (cpc = "loop" /\ attempt > 0) =>
            Len(waits) = IF attempt < max_retries THEN attempt ELSE attempt - 1
    /\ cpc = "done" => Len(waits) = IF tries = <<>> THEN 0 ELSE Len(tries) - 1

\* three failed attempts: waits of 2 and 4, none after the third
C13_Witness ==
    /\ cpc = "done"
    /\ returned = None
    /\ Len(tries) = 3
    /\ Len(waits) = 2
    /\ waits[1].time = 2 /\ waits[2].time = 4

C15_FullCycle ==
    /\ \A k, l \in 1..Len(conns) : conns[k].attempt = conns[l].attempt => k = l
    /\ \A k \in 1..Len(conns) :
          /\ conns[k].calls <= 1
          /\ conns[k].calls > 0 => conns[k].initialized
          /\ conns[k].attempt < attempt => conns[k].state = "closed"
    /\ cpc \in {"initialize", "handshake", "call", "wait", "exit"} =>
          /\ conns # <<>>
          /\ conns[Len(conns)].attempt = attempt
          /\ conns[Len(conns)].state = "open"
    /\ cpc \in {"call", "wait"} => conns[Len(conns)].initialized
    /\ cpc \in {"check", "sleep", "loop", "connect", "done"} =>
          \A k \in 1..Len(conns) : conns[k].state = "closed"

\* the second attempt waits for its answer on its own connection, the
\* first attempt's connection is closed, one backoff wait was made
C15_Witness ==
    /\ cpc = "wait"
    /\ Len(conns) = 2
    /\ conns[1].state = "closed" /\ conns[1].calls = 1
    /\ conns[2].state = "open" /\ conns[2].initialized /\ conns[2].calls = 1
    /\ Len(waits) = 1

(***************************************************************************)
(* C16.  What _call_tool gives its caller tells a transport fault from an  *)
(* application fault from a timeout: two attempts that ended for different *)
(* ones of these never returned the same value, and an attempt is followed *)
(* by another one only when it ended with a transport fault.               *)
(***************************************************************************)
FaultKinds == {"transport", "application", "timeout"}

C16_FaultsDistinguished ==
    /\ \A i, j \in 1..Len(tries) :
          ( /\ tries[i].cause \in FaultKinds
            /\ tries[j].cause \in FaultKinds
            /\ tries[i].cause # tries[j].cause ) => tries[i].value # tries[j].value
    /\ \A i \in 1..Len(tries) : i < attempt => tries[i].cause = "transport"

(***************************************************************************)
(* C19.  The outcome of one client call is decided exactly once: when the  *)
(* timeout fires while a response (or a duplicate of it) is arriving, the  *)
(* call ends either with the response or with the timeout, never both and  *)
(* never neither, and a response that arrives after the outcome was        *)
(* decided changes nothing.                                                *)
(***************************************************************************)
C19_DecidedOnce ==
    /\ \A i, j \in 1..Len(tries) : tries[i].attempt = tries[j].attempt => i = j
    /\ cpc \in {"exit", "check", "sleep"} =>
          /\ Len(tries) = attempt
          /\ tries[attempt].attempt = attempt
          /\ result = tries[attempt].value
    /\ cpc = "wait" => Len(tries) = attempt - 1
    /\ \A i \in 1..Len(tries) :
          /\ tries[i].cause = "timeout" => tries[i].value = except_TimeoutError
          /\ tries[i].cause = "none" => tries[i].value = extract_text(ReplyText)
    /\ (cpc = "done" /\ returned # None) => returned = tries[Len(tries)].value

\* the timeout fired, the response that was on its way arrived afterwards
\* and was dropped, and the call returned the timeout's outcome
C19_Witness ==
    /\ cpc = "check"
    /\ tries[attempt].cause = "timeout" /\ tries[attempt].stage = "call"
    /\ answered >= 1
    /\ wire = <<>>
    /\ result = except_TimeoutError


(***************************************************************************)
(* The synchronous wrappers: GitMCPClientSync._run_async                   *)
(* (pr_review/mcp_client.py), call_mcp_tool_sync and                       *)
(* call_mcp_tool_sync_on_server (bot.py).  The three have the same body:   *)
(*     loop = asyncio.new_event_loop()                                     *)
(*     try: return loop.run_until_complete(coro)                           *)
(*     finally: loop.close()                                               *)
(* Threads call them concurrently.                                         *)
(***************************************************************************)
MaxCalls == 2

\* how run_until_complete ends
Ends == {"returns", "raises"}

SyncInit ==
    /\ tpc = [t \in Threads |-> "idle"]
    /\ tloop = [t \in Threads |-> 0]
    /\ loops = <<>>
    /\ tcalls = [t \in Threads |-> 0]
    /\ srv = "git"
    /\ Accepted
    /\ ClientIdle
    /\ BotIdle

\* variant: the loop is closed only when the coroutine returned
close_on_return(loop, end) ==
    IF end = "returns" THEN [loop EXCEPT !.state = "closed"] ELSE loop

\* finally: loop.close()
finally_close(loop, end) == [loop EXCEPT !.state = "closed"]

\* loop = asyncio.new_event_loop()
new_event_loop(t) ==
    /\ tpc[t] = "idle"
    /\ tcalls[t] < MaxCalls
    /\ loops' = Append(loops, [owner |-> t, call |-> tcalls[t] + 1,
                               state |-> "open", ran |-> <<>>, end |-> ""])
    /\ tloop' = [tloop EXCEPT ![t] = Len(loops) + 1]
    /\ tpc' = [tpc EXCEPT ![t] = "run"]
    /\ UNCHANGED tcalls
    /\ UNCHANGED <<vars, cvars, bvars>>

\* loop.run_until_complete(coro): the coroutine of this call runs on the
\* loop bound to the local variable, and returns or raises
run_until_complete(t) ==
    /\ tpc[t] = "run"
    /\ \E end \in Ends :
          /\ loops' = [loops EXCEPT ![tloop[t]].ran = Append(@, <<t, tcalls[t] + 1>>),
                                    ![tloop[t]].end = end]
          /\ tpc' = [tpc EXCEPT ![t] = end]
    /\ UNCHANGED <<tloop, tcalls>>
    /\ UNCHANGED <<vars, cvars, bvars>>

\* the finally clause, then the wrapper returns or lets the exception out
loop_close(t) ==
    /\ tpc[t] \in Ends
    /\ loops' = [loops EXCEPT ![tloop[t]] = finally_close(@, tpc[t])]
    /\ tloop' = [tloop EXCEPT ![t] = 0]
    /\ tcalls' = [tcalls EXCEPT ![t] = @ + 1]
    /\ tpc' = [tpc EXCEPT ![t] = "idle"]
    /\ UNCHANGED <<vars, cvars, bvars>>

SyncNext ==
    \E t \in Threads :
        \/ new_event_loop(t)
        \/ run_until_complete(t)
        \/ loop_close(t)

SyncSpec == SyncInit /\ [][SyncNext]_allvars

(***************************************************************************)
(* C17.  Every synchronous call creates an event loop of its own, runs     *)
(* only its own coroutine on it and closes it before it returns, whether   *)
(* the coroutine returned or raised; the open loops are as many as the     *)
(* synchronous calls in progress, and no two calls, also of different      *)
(* threads, use the same loop.                                             *)
(***************************************************************************)
InProgress == { t \in Threads : tpc[t] # "idle" }

OpenLoops == { k \in 1..Len(loops) : loops[k].state = "open" }

C17_OwnLoopPerCall ==
    /\ \A t \in InProgress :
          /\ tloop[t] \in OpenLoops
          /\ loops[tloop[t]].owner = t
          /\ loops[tloop[t]].call = tcalls[t] + 1
    /\ \A t, u \in InProgress : tloop[t] = tloop[u] => t = u
    /\ Cardinality(OpenLoops) = Cardinality(InProgress)
    /\ \A k, l \in 1..Len(loops) :
          (loops[k].owner = loops[l].owner /\ loops[k].call = loops[l].call) => k = l
    /\ \A k \in 1..Len(loops) :
          /\ Len(loops[k].ran) <= 1
          /\ \A i \in 1..Len(loops[k].ran) :
                loops[k].ran[i] = <<loops[k].owner, loops[k].call>>
          /\ loops[k].state = "closed" => Len(loops[k].ran) = 1

\* a call whose coroutine raised has returned with its loop closed, while
\* the other thread is in a call on a loop of its own
C17_Witness ==
    /\ tpc["t1"] = "idle" /\ tcalls["t1"] = 1
    /\ tpc["t2"] = "returns"
    /\ Len(loops) = 2
    /\ loops[1].state = "closed" /\ loops[1].owner = "t1" /\ loops[1].end = "raises"
    /\ loops[2].state = "open" /\ loops[2].owner = "t2"


(***************************************************************************)
(* C18.  A slow tool handler does not stall the read loop of its           *)
(* connection: while the iteration of a tools/call text is still under way *)
(* (its handler running, its response not yet sent), the server can read   *)
(* the next text of the same connection.                                   *)
(***************************************************************************)
C18_ReadsWhileHandling ==
    \A c \in Conns :
        ( /\ pc[c] = "handling"
          /\ IsToolCall(recvd[c][Len(recvd[c])])
          /\ open[c]
          /\ Total < MaxMsgs ) => ENABLED Receive(c)

(***************************************************************************)
(* C20.  With several connections open on one server, a fault on one of    *)
(* them (undecodable text, handler exception, send failure, peer gone)     *)
(* does not reach another: a connection's read loop ends only for a cause  *)
(* of its own, and what a connection has sent is what it sends for its own *)
(* texts when it is the only connection.                                   *)
(***************************************************************************)
IsPrefix(p, q) == Len(p) <= Len(q) /\ \A i \in 1..Len(p) : p[i] = q[i]

\* connection c met a fault of its own
Faulted(c) ==
    \/ ~open[c]
    \/ \E n \in 1..Len(recvd[c]) :
          \/ ~IsObject(recvd[c][n])
          \/ Handled(c, n) /\ HandlerRaised(c, n)

C20_FaultsStayInside ==
    \A d \in Conns :
        /\ \E o \in Outputs(server(d), recvd[d]) : IsPrefix(Whats(sent[d]), o)
        /\ (open[d] /\ pc[d] # "handling") =>
              Whats(sent[d]) \in Outputs(server(d), recvd[d])
        /\ pc[d] = "closed" =>
              \/ ~open[d]
              \/ recvd[d] # <<>> /\ ~IsObject(recvd[d][Len(recvd[d])])

\* one connection has met a fault and its loop is over; another one is
\* served and goes on reading
C20_Witness ==
    \E c, d \in Conns :
        /\ c # d
        /\ Faulted(c) /\ pc[c] = "closed"
        /\ Len(recvd[d]) = 1
        /\ IsRequest(recvd[d][1]) /\ OneResponse(d, 1) /\ IsResult(Answer(d, 1))
        /\ pc[d] = "recv" /\ open[d]


(***************************************************************************)
(* C26.  On one connection the requests are processed one at a time: a     *)
(* text is read only after the iteration of the text before it is over     *)
(* and its response is sent, so responses leave in the order of their      *)
(* requests and handlers are entered in that order, never for a text       *)
(* other than the last one read.                                           *)
(***************************************************************************)
C26_OneAtATime ==
    \A c \in Conns :
        /\ \A n \in 1..(Len(recvd[c]) - 1) :
              IsRequest(recvd[c][n]) => OneResponse(c, n)
        /\ \A i, j \in 1..Len(sent[c]) : i < j => sent[c][i].about <= sent[c][j].about
        /\ \A i, j \in 1..Len(runs[c]) : i < j => runs[c][i].about <= runs[c][j].about
        /\ pc[c] = "handling" =>
              /\ Responses(c, Len(recvd[c])) = <<>>
              /\ Entered(c, Len(recvd[c])) = <<>>

\* two tool calls were answered, the first before the second was read
C26_Witness ==
    \E c \in Conns :
        /\ Len(recvd[c]) = 2
        /\ IsToolCall(recvd[c][1]) /\ IsToolCall(recvd[c][2])
        /\ HandlerReturned(c, 1) /\ HandlerReturned(c, 2)
        /\ Len(sent[c]) = 2
        /\ sent[c][1].about = 1 /\ sent[c][2].about = 2

(***************************************************************************)
(* C27.  The server sends no response for an inbound object that carries   *)
(* no id: whatever its method, known or unknown, handling it sends         *)
(* nothing.                                                                *)
(***************************************************************************)
C27_NoResponseWithoutId ==
    \A c \in Conns : \A n \in 1..Len(recvd[c]) :
        ( /\ IsObject(recvd[c][n])
          /\ ~HasId(recvd[c][n])
          /\ Handled(c, n) ) => Responses(c, n) = <<>>


(***************************************************************************)
(* C30.  Every tool name the git client invokes is a tool the git server   *)
(* lists in list_tools and dispatches in call_tool, and the names a git    *)
(* server lists are the names its call_tool dispatches.                    *)
(***************************************************************************)
\* the names GitMCPClient passes to _call_tool and _call_tool_with_retry
ClientToolNames ==
    { "get-pr-diff", "get-changed-files", "get-file-content",
      "get-current-branch", "get-git-status" }

\* the arguments GitMCPClient builds for the tool
ClientArguments(name) ==
    IF name = "get-pr-diff"
    THEN PyDict([base_branch |-> PyStr("main"), head_branch |-> PyStr("feature")])
    ELSE IF name = "get-file-content"
    THEN PyDict([file_path |-> PyStr("bot.py")])
    ELSE EmptyDict

\* call_tool of the git server has a branch for the name
Dispatches(name, arguments) ==
    \A h \in call_tool(PyStr(name), arguments) :
        h.raised \/ h.text # Fmt("Tool not found: ", PyStr(name))

GitListed == { n.v : n \in Names(list_tools("git")) }

C30_ClientNamesServed ==
    srv = "git" =>
        /\ \A name \in ClientToolNames :
              /\ name \in GitListed
              /\ Dispatches(name, ClientArguments(name))
        /\ \A name \in GitListed \cup ClientToolNames \cup {"no-such-tool"} :
              name \in GitListed <=> Dispatches(name, ClientArguments(name))


(***************************************************************************)
(* C22.  A client session goes New, Handshaking, Ready in that order and   *)
(* never backwards: the handshake is performed once per session, a         *)
(* tools/call request is sent only after the handshake was acknowledged,   *)
(* and when the handshake fails or is not acknowledged in time no          *)
(* tools/call request is sent on the session and the call returns failure. *)
(***************************************************************************)
Phase(conn) ==
    IF conn.initialized THEN "Ready"
    ELSE IF conn.handshakes > 0 THEN "Handshaking"
    ELSE "New"

Rank(conn) ==
    CASE Phase(conn) = "New" -> 0
      [] Phase(conn) = "Handshaking" -> 1
      [] Phase(conn) = "Ready" -> 2

\* the handshake of attempt i failed or was not acknowledged in time
HandshakeFailed(i) == i \in 1..Len(tries) /\ tries[i].stage = "initialize"

C22_PhaseStep ==
    \A k \in 1..Len(conns) :
        /\ Rank(conns'[k]) >= Rank(conns[k])
        /\ Rank(conns'[k]) <= Rank(conns[k]) + 1

C22_Sessions ==
    \A k \in 1..Len(conns) :
        /\ conns[k].handshakes <= 1
        /\ conns[k].initialized => conns[k].handshakes = 1
        /\ conns[k].calls > 0 => Phase(conns[k]) = "Ready"
        /\ conns[k].state = "closed" => conns[k].handshakes = 1
        /\ HandshakeFailed(conns[k].attempt) =>
              /\ conns[k].calls = 0
              /\ Phase(conns[k]) = "Handshaking"
              /\ tries[conns[k].attempt].value = None

C22_HandshakeBeforeCall == [][C22_PhaseStep]_allvars /\ []C22_Sessions

\* a handshake was not acknowledged in time: the session is closed with no
\* call sent and the attempt returned None; the next session is Ready and
\* its call is sent
C22_Witness ==
    /\ Len(conns) = 2
    /\ HandshakeFailed(1) /\ tries[1].cause = "timeout"
    /\ conns[1].state = "closed" /\ conns[1].calls = 0
    /\ Phase(conns[2]) = "Ready" /\ conns[2].calls = 1
    /\ cpc = "wait"

(***************************************************************************)
(* C28.  Every client call uses a connection of its own: it opens one      *)
(* connection, sends one handshake and at most one tools/call request on   *)
(* it, and the connection is closed on every exit path (result, empty      *)
(* result, timeout, exception) before the call returns; no session has     *)
(* more than one call pending and no connection outlives its call.         *)
(***************************************************************************)
C28_OwnConnectionPerCall ==
    /\ \A i \in 1..attempt : Len(ConnsOf(i)) <= 1
    /\ \A k \in 1..Len(conns) :
          /\ conns[k].attempt \in 1..attempt
          /\ conns[k].handshakes <= 1
          /\ conns[k].calls <= 1
          /\ ( /\ conns[k].attempt <= Len(tries)
               /\ CallReturned(conns[k].attempt) ) => conns[k].state = "closed"
          /\ conns[k].state = "open" =>
                /\ conns[k].attempt = attempt
                /\ cpc \in {"initialize", "handshake", "call", "wait", "exit"}
    /\ \A i \in 1..Len(tries) :
          (CallReturned(i) /\ tries[i].stage # "connect") =>
              /\ Len(ConnsOf(i)) = 1
              /\ ConnsOf(i)[1].state = "closed"

\* three calls have returned, one with an empty result, one on a timeout,
\* one on an exception, each with its own connection closed
C28_Witness ==
    /\ cpc = "check"
    /\ Len(tries) = 3
    /\ Len(conns) = 3
    /\ { tries[i].cause : i \in 1..3 } = {"empty", "timeout", "application"}
    /\ \A k \in 1..3 : conns[k].state = "closed" /\ conns[k].calls = 1

(***************************************************************************)
(* C29.  The client call wrappers never raise to their caller: for every   *)
(* failure (connection refused, handshake timeout, call timeout, error     *)
(* response, connection dropped, result without content) _call_tool and    *)
(* _call_tool_with_retry return None, and they return a text only when     *)
(* the server answered the call with a result that has content.            *)
(***************************************************************************)
C29_NoneOrText ==
    /\ \A i \in 1..Len(tries) :
          /\ tries[i].value = None \/ IsStr(tries[i].value)
          /\ IsStr(tries[i].value) <=> tries[i].cause = "none"
          /\ tries[i].cause \in {"transport", "timeout", "application", "empty"} =>
                tries[i].value = None
    /\ cpc \in {"exit", "check", "sleep"} => result = None \/ IsStr(result)
    /\ returned = NotYet \/ returned = None \/ IsStr(returned)
    /\ IsStr(returned) =>
          /\ tries # <<>>
          /\ tries[Len(tries)].cause = "none"
          /\ returned = extract_text(ReplyText)
    /\ (cpc = "done" /\ returned = None) =>
          \A i \in 1..Len(tries) : tries[i].cause # "none"

\* a retrying call whose attempts ended with an error response, a handshake
\* timeout and a dropped connection has returned None
C29_Witness ==
    /\ cpc = "done"
    /\ returned = None
    /\ Len(tries) = 3
    /\ tries[1].cause = "application"
    /\ tries[2].cause = "timeout" /\ tries[2].stage = "initialize"
    /\ tries[3].cause = "transport" /\ tries[3].stage = "call"


(***************************************************************************)
(* Server and client under the scheduling their code guarantees.  A        *)
(* behaviour follows either a server connection or a client call (whose    *)
(* server is then seen only through what arrives on the wire).             *)
(*   - receive_text on a connection whose peer is gone raises at once, so  *)
(*     the loop does not stay at it;                                       *)
(*   - wait_for has a finite timeout, so a call does not wait forever;     *)
(*   - leaving the async with blocks, the result check, the backoff sleep  *)
(*     and the loop head are steps of the client's own code.               *)
(***************************************************************************)
\* the connections of the server have ended
Ended ==
    /\ pc = [c \in Conns |-> "closed"]
    /\ open = [c \in Conns |-> FALSE]
    /\ recvd = [c \in Conns |-> <<>>]
    /\ sent = [c \in Conns |-> <<>>]
    /\ runs = [c \in Conns |-> <<>>]

LiveInit ==
    \/ Init
    \/ /\ ClientStart
       /\ srv = "git"
       /\ Ended
       /\ SyncIdle
       /\ BotIdle

\* receive_text on a connection whose peer is known to be gone
ObserveGone(c) == ~open[c] /\ ReceiveDisconnect(c)

LiveNext ==
    \/ Next
    \/ ClientNext

LiveSpec ==
    /\ LiveInit
    /\ [][LiveNext]_allvars
    /\ \A c \in Conns : WF_allvars(ObserveGone(c))
    /\ WF_allvars(wait_for_TimeoutError)
    /\ WF_allvars(async_with_exit)
    /\ WF_allvars(check_result)
    /\ WF_allvars(asyncio_sleep)
    /\ WF_allvars(call_tool_with_retry_loop)

(***************************************************************************)
(* C21.  A disconnection of the peer is terminal for the session: once     *)
(* the server has met it, the read loop of that connection ends (it does   *)
(* not go on reading), nothing more is sent or read on the connection,     *)
(* and the connection handler ends by returning; on the client side a      *)
(* call does not wait forever, and one whose connection drops returns      *)
(* failure.                                                                *)
(***************************************************************************)
\* the running _call_tool met a connection error
Dropped ==
    /\ cpc \in {"exit", "check"}
    /\ tries[Len(tries)].cause = "transport"

C21_NothingAfterGone ==
    \A c \in Conns :
        ~open[c] => /\ sent'[c] = sent[c]
                    /\ recvd'[c] = recvd[c]
                    /\ runs'[c] = runs[c]
                    /\ pc'[c] \in {pc[c], "closed"}

C21_DisconnectIsTerminal ==
    /\ \A c \in Conns : (~open[c]) ~> (pc[c] = "closed")
    /\ [][C21_NothingAfterGone]_allvars
    /\ (cpc = "wait") ~> (cpc = "check")
    /\ [](Dropped => result = None)

\* the peer left while the server was handling a tool call: the send met
\* it and the loop is over
C21_Witness ==
    \E c \in Conns :
        /\ Len(recvd[c]) = 1
        /\ IsToolCall(recvd[c][1]) /\ HandlerReturned(c, 1)
        /\ ~open[c]
        /\ pc[c] = "closed"
        /\ sent[c] = <<>>


(***************************************************************************)
(* C23.  A client-side timeout is local to the client: the client sends    *)
(* nothing about it to the server; on the server the handler of a call is  *)
(* entered and runs to its end whether or not the peer is still there,     *)
(* and when the peer is gone at the end the result is dropped: nothing is  *)
(* sent and the connection handler goes on to its end.                     *)
(***************************************************************************)
\* the call of the attempt that opened the connection timed out
TimedOut(conn) ==
    /\ conn.attempt \in 1..Len(tries)
    /\ tries[conn.attempt].cause = "timeout"
    /\ tries[conn.attempt].stage = "call"

C23_TimeoutIsLocal ==
    /\ \A k \in 1..Len(conns) :
          /\ conns[k].cancels = 0
          /\ TimedOut(conns[k]) =>
                /\ conns[k].handshakes = 1
                /\ conns[k].calls = 1
    /\ \A c \in Conns : \A n \in 1..Len(recvd[c]) :
          ( /\ Handled(c, n)
            /\ IsToolCall(recvd[c][n])
            /\ ToolName(recvd[c][n]) \in RegisteredNames(server(c)) ) =>
              /\ Entered(c, n) # <<>>
              /\ Len(Responses(c, n)) <= 1
              /\ Responses(c, n) = <<>> => ~open[c]
    /\ \A c \in Conns : ~open[c] => pc[c] \in {"recv", "closed"}

\* a call timed out and has returned: one handshake and one request were
\* sent on its connection, nothing else
C23_Witness ==
    /\ cpc = "check"
    /\ Len(conns) = 1
    /\ TimedOut(conns[1])
    /\ conns[1].state = "closed"
    /\ conns[1].calls = 1 /\ conns[1].cancels = 0

(***************************************************************************)
(* bot.py: execute_tasks_pipeline.  It fetches the tasks through the first *)
(* MCP server, has DeepSeek analyse them and has the second MCP server     *)
(* translate the analysis; it returns one dict.                            *)
(***************************************************************************)

\* A Python str as far as the pipeline looks at it: the words of its first
\* 100 characters, the words after them, and what json.loads makes of it.
Text(head, tail, data) == [py |-> "text", head |-> head, tail |-> tail, data |-> data]

\* the call raised instead of returning
Raises == [py |-> "raise"]

\* str.lower(), word by word ("Oshibka" spells the Russian word for error)
lower(word) ==
    CASE word = "Error" -> "error"
      [] word = "ERROR" -> "error"
      [] word = "Oshibka" -> "oshibka"
      [] OTHER -> word

\* `word in text.lower()`
in_lower(word, text) ==
    \/ \E i \in 1..Len(text.head) : lower(text.head[i]) = word
    \/ \E i \in 1..Len(text.tail) : lower(text.tail[i]) = word

\* `word in text.lower()[:100]`
in_lower_100(word, text) == \E i \in 1..Len(text.head) : lower(text.head[i]) = word

\* `not text` for the str or None a collaborator returns
not_text(text) == text = None \/ (text.py = "text" /\ text.head = <<>> /\ text.tail = <<>>)

\* what call_mcp_tool_sync_on_server(MCP_SERVER_URL, "get-tracker-tasks") does
FetchOutcomes ==
    { None,
      Raises,
      Text(<<>>, <<>>, Garbage),
      Text(<<"Error", "tracker">>, <<>>, Garbage),
      Text(<<"tasks">>, <<"ERROR">>, Json(PyDict([error |-> PyStr("x")]))),
      Text(<<"tasks">>, <<>>, Json(PyList)) }

\* what analyze_tasks_order(tasks_json) returns; it catches every exception
AnalyzeOutcomes ==
    { None,
      Text(<<>>, <<>>, Garbage),
      Text(<<"Oshibka", "analiza">>, <<>>, Garbage),
      Text(<<"Analiz">>, <<"Oshibka">>, Garbage),
      Text(<<"Analiz">>, <<>>, Garbage) }

\* what call_mcp_tool_sync_on_server(MCP_SERVER2_URL, "translate-to-esperanto") does
TranslateOutcomes ==
    { None,
      Raises,
      Text(<<>>, <<>>, Garbage),
      Text(<<"error">>, <<>>, Json(PyDict([error |-> PyStr("x")]))),
      Text(<<"teksto">>, <<>>, Json(PyDict([text |-> PyStr("x")]))),
      Text(<<"42">>, <<>>, Json(PyInt(42))),
      Text(<<"Analizo">>, <<>>, Garbage) }

\* execute_tasks_pipeline is entered: result is fresh, nothing was called
PipelineInit ==
    /\ srv = "tracker"
    /\ Accepted
    /\ ClientIdle
    /\ SyncIdle
    /\ pin \in [fetch : FetchOutcomes, analyze : AnalyzeOutcomes,
                translate : TranslateOutcomes]
    /\ ppc = "fetch"
    /\ presult = new_result
    /\ psteps = <<>>
    /\ history = <<>>
    /\ asked = 0
    /\ hcomp = <<>>

\* except Exception as e: result["error"] = str(e); return result
pipeline_except(res) == [res EXCEPT !.error = PyStr("exception")]

\* Step 1: get the tasks
fetch_tasks ==
    /\ ppc = "fetch"
    /\ LET tasks_json == pin.fetch
           failed == tasks_json = Raises \/ not_text(tasks_json)
                     \/ in_lower("error", tasks_json)
       IN /\ psteps' = Append(psteps, [step |-> "fetch_tasks", ok |-> ~failed])
          /\ IF tasks_json = Raises
             THEN /\ presult' = pipeline_except(presult)
                  /\ ppc' = "returned"
             ELSE IF not_text(tasks_json) \/ in_lower("error", tasks_json)
             THEN /\ presult' = [presult EXCEPT
                         !.error = PyStr("fetch failed"),
                         !.step = "fetch_tasks"]
                  /\ ppc' = "returned"
             ELSE /\ presult' = [presult EXCEPT !.tasks_json = tasks_json,
                                                !.step = "fetch_tasks"]
                  /\ ppc' = "analyze"
    /\ UNCHANGED <<pin, history, asked, hcomp>>
    /\ UNCHANGED <<vars, cvars, lvars>>

\* Step 2: analyse the tasks
analyze_tasks ==
    /\ ppc = "analyze"
    /\ LET analysis == pin.analyze
           failed == not_text(analysis) \/ in_lower_100("oshibka", analysis)
       IN /\ psteps' = Append(psteps, [step |-> "analyze_tasks", ok |-> ~failed])
          /\ IF failed
             THEN /\ presult' = [presult EXCEPT
                         !.error = PyStr("analysis failed"),
                         !.step = "analyze_tasks"]
                  /\ ppc' = "returned"
             ELSE /\ presult' = [presult EXCEPT !.analysis = analysis,
                                                !.step = "analyze_tasks"]
                  /\ ppc' = "translate"
    /\ UNCHANGED <<pin, history, asked, hcomp>>
    /\ UNCHANGED <<vars, cvars, lvars>>

\* the response is an error in JSON form:
\* isinstance(error_check, dict) and "error" in error_check
is_json_error(translation_response) ==
    LET error_check == json_loads(translation_response.data)
    IN  /\ ~error_check.raised
        /\ IsDict(error_check.value)
        /\ "error" \in DOMAIN error_check.value.d

\* Step 3: translate the analysis; then success and step "complete"
translate_analysis ==
    /\ ppc = "translate"
    /\ LET translation_response == pin.translate
           failed == translation_response = Raises \/ not_text(translation_response)
                     \/ is_json_error(translation_response)
       IN /\ psteps' = Append(psteps, [step |-> "translate", ok |-> ~failed])
          /\ IF translation_response = Raises
             THEN presult' = pipeline_except(presult)
             ELSE IF failed
             THEN presult' = [presult EXCEPT !.translation = None,
                                             !.error = PyStr("translation unavailable"),
                                             !.success = TRUE,
                                             !.step = "complete"]
             ELSE presult' = [presult EXCEPT !.translation = translation_response,
                                             !.success = TRUE,
                                             !.step = "complete"]
    /\ ppc' = "returned"
    /\ UNCHANGED <<pin, history, asked, hcomp>>
    /\ UNCHANGED <<vars, cvars, lvars>>

PipelineNext == fetch_tasks \/ analyze_tasks \/ translate_analysis

PipelineSpec == PipelineInit /\ [][PipelineNext]_allvars

\* the steps that completed successfully, in the order they ran
Completed == SelectSeq(psteps, LAMBDA st : st.ok)

\* the pipeline has returned its dict
PipelineReturned == ppc = "returned"

\* C24: in the dict returned by execute_tasks_pipeline, step is the last step
\* that completed successfully (none, fetch_tasks, analyze_tasks, complete):
\* the steps run in the order fetch, analyze, translate, no step is started
\* after an earlier one failed, success is True exactly when step is complete,
\* and a failed translation alone does not make the pipeline fail.
C24_StepIsLastCompleted ==
    PipelineReturned =>
        /\ IsPrefix(psteps, <<[step |-> "fetch_tasks", ok |-> TRUE],
                              [step |-> "analyze_tasks", ok |-> TRUE],
                              [step |-> "translate", ok |-> psteps[Len(psteps)].ok]>>)
           \/ /\ ~psteps[Len(psteps)].ok
              /\ \A i \in 1..(Len(psteps) - 1) : psteps[i].ok
              /\ [i \in 1..Len(psteps) |-> psteps[i].step]
                     = SubSeq(<<"fetch_tasks", "analyze_tasks", "translate">>,
                              1, Len(psteps))
        /\ presult.success = (presult.step = "complete")
        /\ (Len(psteps) = 3 /\ pin.translate # Raises) => presult.success
        /\ presult.step =
               IF Len(psteps) = 3 /\ pin.translate # Raises THEN "complete"
               ELSE IF Completed = <<>> THEN "none"
               ELSE Completed[Len(Completed)].step

(***************************************************************************)
(* bot.py: the conversation history of one chat, as ask_question,          *)
(* /compress and /clear leave it.                                          *)
(***************************************************************************)

\* Number of text messages ask_question handles.
MaxAsks == 6

\* one entry of context.user_data['conversation_history']
Message(role, content) == [role |-> role, content |-> content]

\* [msg for msg in history if msg.get('role') != 'system']
non_system(h) == SelectSeq(h, LAMBDA msg : msg.role # "system")

\* list.insert(0, msg)
insert_first(h, msg) == <<msg>> \o h

\* compress_conversation_history(context, force): the history it leaves and
\* whether it compressed
compress_conversation_history(h, force) ==
    IF Len(h) < 10 /\ ~force
    THEN [compressed |-> FALSE, history |-> h]
    ELSE IF non_system(h) = <<>>
    THEN [compressed |-> FALSE, history |-> h]
    ELSE [compressed |-> TRUE, history |-> <<Message("system", "summary")>>]

\* the history a compression has just left, when there was one
last_compression(done, before) == IF done.compressed THEN done.history ELSE before

\* the chat is new: no history, nothing compressed
HistoryInit ==
    /\ srv = "tracker"
    /\ Accepted
    /\ ClientIdle
    /\ SyncIdle
    /\ BotIdle

\* ask_question handles one text message.  keyword_found: the text names the
\* tracker (tracker_info is then set on every branch); monitoring: it asks for
\* host metrics; api: it names the API and RAG is available; rag_success:
\* what handle_rag_query reports.
ask_question ==
    /\ asked < MaxAsks
    /\ asked' = asked + 1
    /\ \E keyword_found \in BOOLEAN, monitoring \in BOOLEAN, api \in BOOLEAN,
          rag_success \in BOOLEAN :
          IF monitoring
          THEN UNCHANGED <<history, hcomp>>
          ELSE IF api /\ rag_success
          THEN /\ history' = Append(history, Message("assistant", "rag answer"))
               /\ UNCHANGED hcomp
          ELSE LET with_tracker ==
                       IF keyword_found /\ ~api
                       THEN insert_first(history, Message("system", "tracker"))
                       ELSE history
                   with_user == Append(with_tracker, Message("user", "question"))
                   done ==
                       IF Len(non_system(with_user)) >= 10
                       THEN compress_conversation_history(with_user, FALSE)
                       ELSE [compressed |-> FALSE, history |-> with_user]
               IN  /\ history' = Append(done.history, Message("assistant", "answer"))
                   /\ hcomp' = last_compression(done, hcomp)
    /\ UNCHANGED <<pin, ppc, presult, psteps>>
    /\ UNCHANGED <<vars, cvars, lvars>>

\* /clear
clear_command ==
    /\ history' = <<>>
    /\ UNCHANGED <<pin, ppc, presult, psteps, asked, hcomp>>
    /\ UNCHANGED <<vars, cvars, lvars>>

\* /compress
compress_command ==
    /\ LET done ==
               IF Len(non_system(history)) < 2
               THEN [compressed |-> FALSE, history |-> history]
               ELSE compress_conversation_history(history, TRUE)
       IN  /\ history' = done.history
           /\ hcomp' = last_compression(done, hcomp)
    /\ UNCHANGED <<pin, ppc, presult, psteps, asked>>
    /\ UNCHANGED <<vars, cvars, lvars>>

HistoryNext == ask_question \/ clear_command \/ compress_command

HistorySpec == HistoryInit /\ [][HistoryNext]_allvars

\* C25: the history is auto-compressed every 10 messages: after ask_question
\* has handled any message on any path, and after any sequence of messages,
\* /compress and /clear, the history holds at most 10 non-system messages, and
\* a compression replaces the whole history by exactly one system summary
\* message.
C25_AtMostTenMessages ==
    /\ Len(non_system(history)) <= 10
    /\ hcomp # <<>> => hcomp = <<Message("system", "summary")>>
====
